---------------------------- MODULE Spec2Model ----------------------------
(***************************************************************************)
(* Keycloak realm provider (provider/pkg/provider/realm.go): the lifecycle *)
(* handlers Create / Update / Read / Delete of the Realm resource, the     *)
(* merge of managed fields onto the remote realm (updateManagedFields),    *)
(* the projection of a remote realm to the reported state                  *)
(* (readRealmState) and the SMTP codec.                                    *)
(*                                                                         *)
(* A Go pointer (to a bool, string, int or map) is modelled as a sequence  *)
(* of length 0 (nil) or 1 (the value pointed to).  A Go string that the    *)
(* code                                                                    *)
(* inspects character by character (the SMTP port) is a sequence of one-   *)
(* character strings; every other string is an atom.  An error is the      *)
(* sequence of its fmt.Errorf wrappers, outermost first, ending with the   *)
(* text of the underlying error.                                           *)
(*                                                                         *)
(* Spec runs the handlers against the remote system.  ConvSpec applies the *)
(* conversions (the SMTP codec, parseInt, the projection) to inputs drawn  *)
(* from bounded sets; its variable conv holds one input and its outputs.   *)
(* ConfigureSpec runs KeycloakProvider.Configure (config.go) on the        *)
(* configurations of a bounded set; its variable provider is the           *)
(* KeycloakProvider.                                                       *)
(***************************************************************************)
EXTENDS Integers, Sequences, FiniteSets, TLC

VARIABLES remote, ops, conv, provider

vars == <<remote, ops, conv, provider>>

-----------------------------------------------------------------------------
(* Pointers *)

Nil == << >>

Some(v) == <<v>>

IsNil(p) == p = Nil

Deref(p) == p[1]

-----------------------------------------------------------------------------
(* The SMTP codec: convertSmtpConfig, convertFromKeycloakSmtp, parseInt *)

Digits == <<"0", "1", "2", "3", "4", "5", "6", "7", "8", "9">>

DigitValue(c) == (CHOOSE i \in 1..10 : Digits[i] = c) - 1

IsDigit(c) == \E i \in 1..10 : Digits[i] = c

\* A Go int is 64 bits wide, two's complement. It is kept here as IntLimbs
\* limbs of 16 bits, the least significant first, so that arithmetic on it
\* wraps as the machine's does.
IntLimbs == 4

LimbBase == 2 ^ 16

\* The int with value n, for 0 <= n < LimbBase
GoInt(n) == [i \in 1..IntLimbs |-> IF i = 1 THEN n ELSE 0]

\* v * m + carry on the limbs of v; the carry out of the last limb is lost
RECURSIVE MulAdd(_, _, _)
MulAdd(v, m, carry) ==
    IF v = << >> THEN << >>
    ELSE LET t == Head(v) * m + carry
         IN  <<t % LimbBase>> \o MulAdd(Tail(v), m, t \div LimbBase)

\* The quotient and the remainder of (rem, v) by d, v taken as unsigned
RECURSIVE DivMod(_, _, _)
DivMod(v, d, rem) ==
    IF v = << >> THEN [q |-> << >>, r |-> rem]
    ELSE LET n == Len(v)
             t == rem * LimbBase + v[n]
             rest == DivMod(SubSeq(v, 1, n - 1), d, t % d)
         IN  [q |-> Append(rest.q, t \div d), r |-> rest.r]

IsZero(v) == \A i \in 1..Len(v) : v[i] = 0

\* The sign bit of v
IsNegative(v) == v[Len(v)] >= LimbBase \div 2

\* 0 - v
Negate(v) == MulAdd([i \in 1..Len(v) |-> LimbBase - 1 - v[i]], 1, 1)

\* The decimal digits of v taken as unsigned
RECURSIVE FormatNat(_)
FormatNat(n) ==
    LET dm == DivMod(n, 10, 0)
    IN  IF IsZero(dm.q) THEN <<Digits[dm.r + 1]>>
        ELSE FormatNat(dm.q) \o <<Digits[dm.r + 1]>>

\* fmt.Sprintf("%d", n)
SprintfD(n) ==
    IF IsNegative(n) THEN <<"-">> \o FormatNat(Negate(n)) ELSE FormatNat(n)

RECURSIVE parseDigits(_, _)
parseDigits(s, result) ==
    IF s = << >> THEN Some(result)
    ELSE IF ~IsDigit(Head(s)) THEN Nil
    ELSE parseDigits(Tail(s), MulAdd(result, 10, DigitValue(Head(s))))

\* Faulty variant: the loop starts at the second character
parseIntSkipFirst(s) ==
    IF s = << >> THEN Nil ELSE parseDigits(Tail(s), GoInt(0))

parseInt(s) == IF s = << >> THEN Nil ELSE parseDigits(s, GoInt(0))

\* m with key k set to v (result[k] = v on a Go map)
MapPut(m, k, v) == [x \in DOMAIN m \cup {k} |-> IF x = k THEN v ELSE m[x]]

EmptyMap == [x \in {} |-> ""]

NilSmtp ==
    [Host |-> Nil, Port |-> Nil, From |-> Nil, FromName |-> Nil,
     StartTls |-> Nil, Auth |-> Nil, Username |-> Nil, Password |-> Nil]

\* Faulty variant: user and password are written whatever auth is
smtpAuthPartAlways(smtp, m) ==
    LET m1 == MapPut(m, "auth",
                     IF ~IsNil(smtp.Auth) /\ Deref(smtp.Auth) THEN "true"
                     ELSE "false")
        m2 == IF ~IsNil(smtp.Username)
              THEN MapPut(m1, "user", Deref(smtp.Username)) ELSE m1
    IN  IF ~IsNil(smtp.Password)
        THEN MapPut(m2, "password", Deref(smtp.Password)) ELSE m2

smtpAuthPart(smtp, m) ==
    IF ~IsNil(smtp.Auth) /\ Deref(smtp.Auth)
    THEN LET m1 == MapPut(m, "auth", "true")
             m2 == IF ~IsNil(smtp.Username)
                   THEN MapPut(m1, "user", Deref(smtp.Username)) ELSE m1
         IN  IF ~IsNil(smtp.Password)
             THEN MapPut(m2, "password", Deref(smtp.Password)) ELSE m2
    ELSE MapPut(m, "auth", "false")

\* Faulty variant: the sender address is left out of the map
convertSmtpConfigNoFrom(smtp) ==
    LET m1 == IF ~IsNil(smtp.Host)
              THEN MapPut(EmptyMap, "host", Deref(smtp.Host)) ELSE EmptyMap
        m2 == IF ~IsNil(smtp.Port)
              THEN MapPut(m1, "port", SprintfD(Deref(smtp.Port))) ELSE m1
        m4 == IF ~IsNil(smtp.FromName)
              THEN MapPut(m2, "fromDisplayName", Deref(smtp.FromName)) ELSE m2
        m5 == IF ~IsNil(smtp.StartTls)
              THEN MapPut(m4, "starttls",
                          IF Deref(smtp.StartTls) THEN "true" ELSE "false")
              ELSE m4
    IN  smtpAuthPart(smtp, m5)

\* smtp is the record pointed to (the caller has excluded the nil pointer)
convertSmtpConfig(smtp) ==
    LET m1 == IF ~IsNil(smtp.Host)
              THEN MapPut(EmptyMap, "host", Deref(smtp.Host)) ELSE EmptyMap
        m2 == IF ~IsNil(smtp.Port)
              THEN MapPut(m1, "port", SprintfD(Deref(smtp.Port))) ELSE m1
        m3 == IF ~IsNil(smtp.From)
              THEN MapPut(m2, "from", Deref(smtp.From)) ELSE m2
        m4 == IF ~IsNil(smtp.FromName)
              THEN MapPut(m3, "fromDisplayName", Deref(smtp.FromName)) ELSE m3
        m5 == IF ~IsNil(smtp.StartTls)
              THEN MapPut(m4, "starttls",
                          IF Deref(smtp.StartTls) THEN "true" ELSE "false")
              ELSE m4
    IN  smtpAuthPart(smtp, m5)

Has(m, k) == k \in DOMAIN m

\* Faulty variant: user and password are decoded whatever auth is
convertFromKeycloakSmtpCredentials(keycloakSmtp) ==
    IF DOMAIN keycloakSmtp = {} THEN Nil
    ELSE LET authBool == Has(keycloakSmtp, "auth") /\ keycloakSmtp["auth"] = "true"
         IN Some(
            [Host |-> IF Has(keycloakSmtp, "host")
                      THEN Some(keycloakSmtp["host"]) ELSE Nil,
             Port |-> IF Has(keycloakSmtp, "port")
                      THEN parseInt(keycloakSmtp["port"]) ELSE Nil,
             From |-> IF Has(keycloakSmtp, "from")
                      THEN Some(keycloakSmtp["from"]) ELSE Nil,
             FromName |-> IF Has(keycloakSmtp, "fromDisplayName")
                          THEN Some(keycloakSmtp["fromDisplayName"]) ELSE Nil,
             StartTls |-> IF Has(keycloakSmtp, "starttls")
                          THEN Some(keycloakSmtp["starttls"] = "true") ELSE Nil,
             Auth |-> IF Has(keycloakSmtp, "auth") THEN Some(authBool) ELSE Nil,
             Username |-> IF Has(keycloakSmtp, "user")
                          THEN Some(keycloakSmtp["user"]) ELSE Nil,
             Password |-> IF Has(keycloakSmtp, "password")
                          THEN Some(keycloakSmtp["password"]) ELSE Nil])

\* returns a pointer: Nil for an empty map
convertFromKeycloakSmtp(keycloakSmtp) ==
    IF DOMAIN keycloakSmtp = {} THEN Nil
    ELSE LET authBool == Has(keycloakSmtp, "auth") /\ keycloakSmtp["auth"] = "true"
         IN Some(
            [Host |-> IF Has(keycloakSmtp, "host")
                      THEN Some(keycloakSmtp["host"]) ELSE Nil,
             Port |-> IF Has(keycloakSmtp, "port")
                      THEN parseInt(keycloakSmtp["port"]) ELSE Nil,
             From |-> IF Has(keycloakSmtp, "from")
                      THEN Some(keycloakSmtp["from"]) ELSE Nil,
             FromName |-> IF Has(keycloakSmtp, "fromDisplayName")
                          THEN Some(keycloakSmtp["fromDisplayName"]) ELSE Nil,
             StartTls |-> IF Has(keycloakSmtp, "starttls")
                          THEN Some(keycloakSmtp["starttls"] = "true") ELSE Nil,
             Auth |-> IF Has(keycloakSmtp, "auth") THEN Some(authBool) ELSE Nil,
             Username |-> IF authBool /\ Has(keycloakSmtp, "user")
                          THEN Some(keycloakSmtp["user"]) ELSE Nil,
             Password |-> IF authBool /\ Has(keycloakSmtp, "password")
                          THEN Some(keycloakSmtp["password"]) ELSE Nil])

-----------------------------------------------------------------------------
(* RealmArgs, gocloak.RealmRepresentation, RealmState *)

\* RealmArgs with every optional field nil
Args(name) ==
    [Name |-> name, Enabled |-> Nil, DisplayName |-> Nil,
     DisplayNameHtml |-> Nil, LoginTheme |-> Nil, AccountTheme |-> Nil,
     AdminTheme |-> Nil, EmailTheme |-> Nil, SmtpServer |-> Nil]

\* The optional fields of RealmArgs / RealmState that hold a string
StringFields ==
    {"DisplayName", "DisplayNameHtml", "LoginTheme", "AccountTheme",
     "AdminTheme", "EmailTheme"}

\* The optional fields of RealmArgs: the managed set
managedFields == {"Enabled", "SmtpServer"} \cup StringFields

\* gocloak.RealmRepresentation{} : every pointer nil
ZeroRealm ==
    [Realm |-> Nil, Enabled |-> Nil, DisplayName |-> Nil,
     DisplayNameHTML |-> Nil, LoginTheme |-> Nil, AccountTheme |-> Nil,
     AdminTheme |-> Nil, EmailTheme |-> Nil, SMTPServer |-> Nil,
     SslRequired |-> Nil, RegistrationAllowed |-> Nil]

\* The representation field that holds a managed field of RealmArgs
RepField(f) ==
    CASE f = "DisplayNameHtml" -> "DisplayNameHTML"
      [] f = "SmtpServer" -> "SMTPServer"
      [] OTHER -> f

\* RealmState{} : the zero value
ZeroState ==
    [ID |-> "", Name |-> "", Enabled |-> Nil, DisplayName |-> Nil,
     DisplayNameHtml |-> Nil, LoginTheme |-> Nil, AccountTheme |-> Nil,
     AdminTheme |-> Nil, EmailTheme |-> Nil, SmtpServer |-> Nil]

\* The managed fields that are present in args written over realm base
overlay(args, base) ==
    [base EXCEPT
       !.Enabled = IF ~IsNil(args.Enabled) THEN args.Enabled ELSE @,
       !.DisplayName = IF ~IsNil(args.DisplayName) THEN args.DisplayName ELSE @,
       !.DisplayNameHTML =
           IF ~IsNil(args.DisplayNameHtml) THEN args.DisplayNameHtml ELSE @,
       !.LoginTheme = IF ~IsNil(args.LoginTheme) THEN args.LoginTheme ELSE @,
       !.AccountTheme = IF ~IsNil(args.AccountTheme) THEN args.AccountTheme ELSE @,
       !.AdminTheme = IF ~IsNil(args.AdminTheme) THEN args.AdminTheme ELSE @,
       !.EmailTheme = IF ~IsNil(args.EmailTheme) THEN args.EmailTheme ELSE @,
       !.SMTPServer =
           IF ~IsNil(args.SmtpServer)
           THEN Some(convertSmtpConfig(Deref(args.SmtpServer))) ELSE @]

\* Faulty variant: the payload is built from an empty representation, so that it
\* carries the managed fields only
updateRealmFromZero(args, currentRealm) ==
    overlay(args, [ZeroRealm EXCEPT !.Realm = currentRealm.Realm])

\* Faulty variant: displayName is written whether or not it is present
updateRealmClearing(args, currentRealm) ==
    [overlay(args, currentRealm) EXCEPT !.DisplayName = args.DisplayName]

\* Faulty variant: adminTheme is copied from the current realm's accountTheme
updateRealmWrongField(args, currentRealm) ==
    [overlay(args, currentRealm) EXCEPT
       !.AdminTheme = IF ~IsNil(args.AdminTheme)
                      THEN currentRealm.AccountTheme ELSE @]

\* Faulty variant: the encoded SMTP keys are merged into the current SMTP map
updateRealmMerging(args, currentRealm) ==
    [overlay(args, currentRealm) EXCEPT
       !.SMTPServer =
           IF ~IsNil(args.SmtpServer) /\ ~IsNil(currentRealm.SMTPServer)
           THEN LET old == Deref(currentRealm.SMTPServer)
                    new == convertSmtpConfig(Deref(args.SmtpServer))
                IN  Some([k \in DOMAIN old \cup DOMAIN new |->
                            IF k \in DOMAIN new THEN new[k] ELSE old[k]])
           ELSE @]

\* Faulty variant: an absent enabled is written as true, as at creation
updateRealmDefaulting(args, currentRealm) ==
    [overlay(args, currentRealm) EXCEPT
       !.Enabled = IF IsNil(args.Enabled) THEN Some(TRUE) ELSE @]

\* The update payload of updateManagedFields: a copy of the current realm with
\* the managed fields that are present in args written over it
updateRealm(args, currentRealm) == overlay(args, currentRealm)

\* Faulty variant: the shell leaves enabled unset when the input does
minimalRealmNoDefault(args) ==
    [ZeroRealm EXCEPT
       !.Realm = Some(args.Name), !.Enabled = args.Enabled,
       !.DisplayName = args.DisplayName]

\* The shell that Create sends to CreateRealm
minimalRealm(args) ==
    [ZeroRealm EXCEPT
       !.Realm = Some(args.Name),
       !.Enabled = IF ~IsNil(args.Enabled) THEN args.Enabled ELSE Some(TRUE),
       !.DisplayName = IF ~IsNil(args.DisplayName) THEN args.DisplayName ELSE @]

\* Faulty variant: an unset enabled is reported as the schema default, true
realmStateDefaulting(realm) ==
    [ID |-> Deref(realm.Realm), Name |-> Deref(realm.Realm),
     Enabled |-> IF IsNil(realm.Enabled) THEN Some(TRUE) ELSE realm.Enabled,
     DisplayName |-> realm.DisplayName,
     DisplayNameHtml |-> realm.DisplayNameHTML,
     LoginTheme |-> realm.LoginTheme, AccountTheme |-> realm.AccountTheme,
     AdminTheme |-> realm.AdminTheme, EmailTheme |-> realm.EmailTheme,
     SmtpServer |-> IF ~IsNil(realm.SMTPServer)
                    THEN convertFromKeycloakSmtp(Deref(realm.SMTPServer))
                    ELSE Nil]

\* The state readRealmState builds from the realm it fetched
realmState(realm) ==
    [ID |-> Deref(realm.Realm), Name |-> Deref(realm.Realm),
     Enabled |-> realm.Enabled, DisplayName |-> realm.DisplayName,
     DisplayNameHtml |-> realm.DisplayNameHTML,
     LoginTheme |-> realm.LoginTheme, AccountTheme |-> realm.AccountTheme,
     AdminTheme |-> realm.AdminTheme, EmailTheme |-> realm.EmailTheme,
     SmtpServer |-> IF ~IsNil(realm.SMTPServer)
                    THEN convertFromKeycloakSmtp(Deref(realm.SMTPServer))
                    ELSE Nil]

\* Faulty variant: the dry run reports the schema default for an absent enabled
dryRunStateDefaulting(args) ==
    [ID |-> args.Name, Name |-> args.Name,
     Enabled |-> IF IsNil(args.Enabled) THEN Some(TRUE) ELSE args.Enabled,
     DisplayName |-> args.DisplayName,
     DisplayNameHtml |-> args.DisplayNameHtml,
     LoginTheme |-> args.LoginTheme, AccountTheme |-> args.AccountTheme,
     AdminTheme |-> args.AdminTheme, EmailTheme |-> args.EmailTheme,
     SmtpServer |-> args.SmtpServer]

\* The state a dry run of Create or Update returns: the inputs
dryRunState(args) ==
    [ID |-> args.Name, Name |-> args.Name, Enabled |-> args.Enabled,
     DisplayName |-> args.DisplayName,
     DisplayNameHtml |-> args.DisplayNameHtml,
     LoginTheme |-> args.LoginTheme, AccountTheme |-> args.AccountTheme,
     AdminTheme |-> args.AdminTheme, EmailTheme |-> args.EmailTheme,
     SmtpServer |-> args.SmtpServer]

-----------------------------------------------------------------------------
(* The remote admin API as the handlers see it through the gocloak client *)

RealmNames == {"acme", "other"}

\* The admin realm of the provider configuration (*config.Realm)
AdminRealm == "master"

LoginErr == <<"401 Unauthorized">>

ServerErr == <<"500 Internal Server Error">>

ConflictErr == <<"409 Conflict">>

\* The texts with which the client reports a realm that does not exist
NotFoundErrs ==
    {<<"404">>, <<"realm not found">>, <<"404 Not Found: Realm not found.">>}

\* The context texts of the fmt.Errorf calls of realm.go; each format is the
\* text followed by ": %w" and has no other verb
ContextTexts ==
    {"failed to authenticate", "failed to check if realm exists",
     "failed to create realm", "failed to update managed fields",
     "failed to read realm state", "failed to delete realm",
     "failed to get current realm", "failed to update realm",
     "failed to get realm"}

\* fmt.Errorf(ctx + ": %w", err)
Wrap(ctx, err) == <<ctx>> \o err

Outcome(ok, ret, err) == [ok |-> ok, ret |-> ret, err |-> err]

Success(ret) == Outcome(TRUE, ret, << >>)

Failure(err) == Outcome(FALSE, Nil, err)

\* client.LoginAdmin: a fresh token, or a failure.  A token is named by the
\* invocation it was issued to and the position of the login in its log;
\* the one Configure obtains is <<0, 0>>.
LoginAdminOutcomes(n) == {Success(Some(n)), Failure(LoginErr)}

\* client.GetRealm(ctx, token, name)
GetRealmOutcomes(name) ==
    {Failure(ServerErr)} \cup
    (IF IsNil(remote[name])
     THEN {Failure(e) : e \in NotFoundErrs}
     ELSE {Success(remote[name])})

\* What the server stores for a realm created from a representation: the
\* fields sent, and its own defaults for what was not sent
createdRealm(rep) ==
    [rep EXCEPT
       !.SMTPServer = IF IsNil(@) THEN Some(EmptyMap) ELSE @,
       !.SslRequired = IF IsNil(@) THEN Some("external") ELSE @,
       !.RegistrationAllowed = IF IsNil(@) THEN Some(FALSE) ELSE @]

\* client.CreateRealm(ctx, token, rep): the outcome and the remote state after
CreateRealmOutcomes(rep) ==
    LET name == Deref(rep.Realm)
    IN  {[out |-> Failure(ServerErr), after |-> remote]} \cup
        (IF IsNil(remote[name])
         THEN {[out |-> Success(Some(name)),
                after |-> [remote EXCEPT ![name] = Some(createdRealm(rep))]]}
         ELSE {[out |-> Failure(ConflictErr), after |-> remote]})

\* client.UpdateRealm(ctx, token, rep): the realm named in rep is replaced by rep
UpdateRealmOutcomes(rep) ==
    LET name == Deref(rep.Realm)
    IN  {[out |-> Failure(ServerErr), after |-> remote]} \cup
        (IF IsNil(remote[name])
         THEN {[out |-> Failure(e), after |-> remote] : e \in NotFoundErrs}
         ELSE {[out |-> Success(Nil),
                after |-> [remote EXCEPT ![name] = Some(rep)]]})

\* client.DeleteRealm(ctx, token, name)
DeleteRealmOutcomes(name) ==
    {[out |-> Failure(ServerErr), after |-> remote]} \cup
    (IF IsNil(remote[name])
     THEN {[out |-> Failure(e), after |-> remote] : e \in NotFoundErrs}
     ELSE {[out |-> Success(Nil), after |-> [remote EXCEPT ![name] = Nil]]})

\* One entry of the log of the remote calls an operation has made
Call(call, realm, token, arg, out) ==
    [call |-> call, realm |-> realm, token |-> token, arg |-> arg,
     ok |-> out.ok, ret |-> out.ret, err |-> out.err]

-----------------------------------------------------------------------------
(* One invocation of a lifecycle handler *)

NoResult == [status |-> "none", err |-> << >>, id |-> Nil, state |-> Nil]

Ok(id, state) == [status |-> "ok", err |-> << >>, id |-> id, state |-> state]

Err(e) == [status |-> "error", err |-> e, id |-> Nil, state |-> Nil]

IdleOp ==
    [kind |-> "idle", pc |-> "idle", name |-> "", id |-> "", args |-> Args(""),
     dryRun |-> FALSE, token |-> Nil, etoken |-> Nil, currentRealm |-> Nil,
     delErr |-> << >>, calls |-> << >>, result |-> NoResult,
     pre |-> Nil, interfered |-> FALSE, prev |-> Nil, checked |-> Nil]

Finished(op) == op.pc \in {"idle", "done"}

\* The positions in op's log of the calls named call
CallsOf(op, call) == {i \in 1..Len(op.calls) : op.calls[i].call = call}

\* The payload of the UpdateRealm call an operation made, when it made one
payloadOf(op) ==
    IF \E i \in 1..Len(op.calls) : op.calls[i].call = "UpdateRealm"
    THEN Some((op.calls[CHOOSE i \in 1..Len(op.calls) :
                           op.calls[i].call = "UpdateRealm"]).arg)
    ELSE Nil

\* What the next invocation remembers of the one that just returned: a
\* successful non-dry-run Update of the same realm that no other writer
\* followed or overlapped.  Kept only by a Read, and by an Update with the
\* same inputs.
prevOf(op, kind, name, args) ==
    IF /\ op.kind = "Update" /\ op.pc = "done" /\ op.result.status = "ok"
       /\ ~op.dryRun /\ ~op.interfered /\ op.name = name
       /\ (kind = "Read" \/ (kind = "Update" /\ args = op.args))
    THEN Some([args |-> op.args, pre |-> op.pre, payload |-> payloadOf(op)])
    ELSE Nil

\* A handler is entered: name is the realm name it works on
NewOp(op, kind, name, id, args, dryRun) ==
    [IdleOp EXCEPT !.kind = kind, !.pc = "login", !.name = name, !.id = id,
                   !.args = args, !.dryRun = dryRun, !.pre = remote[name],
                   !.prev = prevOf(op, kind, name, args)]

Return(op, calls, result) ==
    [op EXCEPT !.pc = "done", !.calls = calls, !.result = result]

Goto(op, calls, pc) == [op EXCEPT !.pc = pc, !.calls = calls]

-----------------------------------------------------------------------------
(* The handlers, one action per remote call *)

Set(p, op) == ops' = [ops EXCEPT ![p] = op]

\* The runtime invokes Create(ctx, req) with req.Inputs = args
CreateBegin(p, args, dryRun) ==
    /\ Finished(ops[p])
    /\ Set(p, NewOp(ops[p], "Create", args.Name, "", args, dryRun))
    /\ UNCHANGED remote

\* The runtime invokes Update(ctx, req) with req.ID = id, req.Inputs = args
UpdateBegin(p, id, args, dryRun) ==
    /\ Finished(ops[p])
    /\ Set(p, NewOp(ops[p], "Update", args.Name, id, args, dryRun))
    /\ UNCHANGED remote

\* The runtime invokes Read(ctx, req) with req.ID = id
ReadBegin(p, id) ==
    /\ Finished(ops[p])
    /\ Set(p, NewOp(ops[p], "Read", id, id, Args(id), FALSE))
    /\ UNCHANGED remote

\* The runtime invokes Delete(ctx, req) with req.State.Name = name
DeleteBegin(p, name) ==
    /\ Finished(ops[p])
    /\ Set(p, NewOp(ops[p], "Delete", name, name, Args(name), FALSE))
    /\ UNCHANGED remote

\* Create after its login: on to the existence check
CreateAfterLogin(op, calls) == Goto(op, calls, "exists_login")

\* Update after its login: the dry run returns the inputs, otherwise on to
\* updateManagedFields
UpdateAfterLogin(op, calls) ==
    IF op.dryRun
    THEN Return(op, calls, Ok(Nil, Some(dryRunState(op.args))))
    ELSE Goto(op, calls, "umf_get")

ReadAfterLogin(op, calls) == Goto(op, calls, "exists_login")

DeleteAfterLogin(op, calls) == Goto(op, calls, "delete")

\* Faulty variant: the handler logs in and then uses the token Configure kept
LoginKeepingProviderToken(p) ==
    LET op == ops[p]
    IN  /\ op.pc = "login"
        /\ \E out \in LoginAdminOutcomes(<<p, Len(op.calls) + 1>>) :
             LET calls == Append(op.calls,
                                 Call("LoginAdmin", AdminRealm, Nil, Nil, out))
                 op1 == [op EXCEPT !.token = provider.token]
             IN  Set(p, IF ~out.ok
                        THEN Return(op, calls,
                                    Err(Wrap("failed to authenticate", out.err)))
                        ELSE CASE op.kind = "Create" -> CreateAfterLogin(op1, calls)
                               [] op.kind = "Update" -> UpdateAfterLogin(op1, calls)
                               [] op.kind = "Read" -> ReadAfterLogin(op1, calls)
                               [] op.kind = "Delete" -> DeleteAfterLogin(op1, calls))
        /\ UNCHANGED remote

\* The first statement of every handler: client.LoginAdmin
Login(p) ==
    LET op == ops[p]
    IN  /\ op.pc = "login"
        /\ \E out \in LoginAdminOutcomes(<<p, Len(op.calls) + 1>>) :
             LET calls == Append(op.calls,
                                 Call("LoginAdmin", AdminRealm, Nil, Nil, out))
                 op1 == [op EXCEPT !.token = out.ret]
             IN  Set(p, IF ~out.ok
                        THEN Return(op, calls,
                                    Err(Wrap("failed to authenticate", out.err)))
                        ELSE CASE op.kind = "Create" -> CreateAfterLogin(op1, calls)
                               [] op.kind = "Update" -> UpdateAfterLogin(op1, calls)
                               [] op.kind = "Read" -> ReadAfterLogin(op1, calls)
                               [] op.kind = "Delete" -> DeleteAfterLogin(op1, calls))
        /\ UNCHANGED remote

\* Faulty variant: the shell is created whatever the existence check returned
CreateAfterExistsAlways(op, calls, exists, err) ==
    IF err # << >>
    THEN Return(op, calls, Err(Wrap("failed to check if realm exists", err)))
    ELSE IF op.dryRun
    THEN Return(op, calls, Ok(Some(op.args.Name), Some(dryRunState(op.args))))
    ELSE Goto(op, calls, "create")

\* Create once realmExists has returned (exists, err)
CreateAfterExists(op, calls, exists, err) ==
    IF err # << >>
    THEN Return(op, calls, Err(Wrap("failed to check if realm exists", err)))
    ELSE IF op.dryRun
    THEN Return(op, calls, Ok(Some(op.args.Name), Some(dryRunState(op.args))))
    ELSE IF ~exists THEN Goto(op, calls, "create")
    ELSE Goto(op, calls, "umf_get")

\* Read once realmExists has returned (exists, err)
ReadAfterExists(op, calls, exists, err) ==
    IF err # << >>
    THEN Return(op, calls, Err(Wrap("failed to check if realm exists", err)))
    ELSE IF ~exists THEN Return(op, calls, Ok(Some(""), Some(ZeroState)))
    ELSE Goto(op, calls, "read_get")

\* Faulty variant: a failed existence check replaces the DeleteRealm failure
DeleteAfterExistsCheckErr(op, calls, exists, checkErr) ==
    IF checkErr = << >> /\ ~exists
    THEN Return(op, calls, Ok(Nil, Nil))
    ELSE Return(op, calls,
                Err(Wrap("failed to delete realm",
                         IF checkErr # << >> THEN checkErr ELSE op.delErr)))

\* Faulty variant: a check that did not fail is taken for "the realm is gone"
DeleteAfterExistsIgnoringExists(op, calls, exists, checkErr) ==
    IF checkErr = << >>
    THEN Return(op, calls, Ok(Nil, Nil))
    ELSE Return(op, calls, Err(Wrap("failed to delete realm", op.delErr)))

\* Delete once the realmExists that follows a failed DeleteRealm has returned
DeleteAfterExists(op, calls, exists, checkErr) ==
    IF checkErr = << >> /\ ~exists
    THEN Return(op, calls, Ok(Nil, Nil))
    ELSE Return(op, calls, Err(Wrap("failed to delete realm", op.delErr)))

\* realmExists returns (exists, err) to its caller; checked keeps what it
\* returned
AfterExists(op, calls, exists, err) ==
    LET op1 == [op EXCEPT !.checked = Some([exists |-> exists, err |-> err])]
    IN  CASE op.kind = "Create" -> CreateAfterExists(op1, calls, exists, err)
          [] op.kind = "Read" -> ReadAfterExists(op1, calls, exists, err)
          [] op.kind = "Delete" -> DeleteAfterExists(op1, calls, exists, err)

\* realmExists: its own client.LoginAdmin
realmExistsLogin(p) ==
    LET op == ops[p]
    IN  /\ op.pc = "exists_login"
        /\ \E out \in LoginAdminOutcomes(<<p, Len(op.calls) + 1>>) :
             LET calls == Append(op.calls,
                                 Call("LoginAdmin", AdminRealm, Nil, Nil, out))
             IN  Set(p, IF ~out.ok
                        THEN AfterExists(op, calls, FALSE,
                                         Wrap("failed to authenticate", out.err))
                        ELSE Goto([op EXCEPT !.etoken = out.ret], calls,
                                  "exists_get"))
        /\ UNCHANGED remote

\* Faulty variant: every not-found answer of the client is recognised
isNotFoundAnyText(err) == err \in NotFoundErrs

\* The error text realmExists takes for "the realm does not exist"
isNotFound(err) == err = <<"404">> \/ err = <<"realm not found">>

\* realmExists: client.GetRealm with its own token, and what it returns; the
\* realm fetched is dropped (_, err = client.GetRealm(...))
realmExistsGet(p) ==
    LET op == ops[p]
    IN  /\ op.pc = "exists_get"
        /\ \E out \in GetRealmOutcomes(op.name) :
             LET calls == Append(op.calls,
                                 Call("GetRealm", op.name, op.etoken, Nil,
                                      [out EXCEPT !.ret = Nil]))
             IN  Set(p, IF ~out.ok
                        THEN IF isNotFound(out.err)
                             THEN AfterExists(op, calls, FALSE, << >>)
                             ELSE AfterExists(op, calls, FALSE, out.err)
                        ELSE AfterExists(op, calls, TRUE, << >>))
        /\ UNCHANGED remote

\* Faulty variant: a CreateRealm that failed is tried again
CreateShellRetrying(p) ==
    LET op == ops[p]
    IN  /\ op.pc = "create"
        /\ \E o \in CreateRealmOutcomes(minimalRealm(op.args)) :
             LET calls == Append(op.calls,
                                 Call("CreateRealm", op.args.Name, op.token,
                                      minimalRealm(op.args), o.out))
             IN  /\ Set(p, IF ~o.out.ok
                           THEN IF Len(op.calls) < 4
                                THEN Goto(op, calls, "create")
                                ELSE Return(op, calls,
                                            Err(Wrap("failed to create realm",
                                                     o.out.err)))
                           ELSE Goto(op, calls, "umf_get"))
                 /\ remote' = o.after

\* Create: client.CreateRealm with the minimal realm
CreateShell(p) ==
    LET op == ops[p]
    IN  /\ op.pc = "create"
        /\ \E o \in CreateRealmOutcomes(minimalRealm(op.args)) :
             LET calls == Append(op.calls,
                                 Call("CreateRealm", op.args.Name, op.token,
                                      minimalRealm(op.args), o.out))
             IN  /\ Set(p, IF ~o.out.ok
                           THEN Return(op, calls,
                                       Err(Wrap("failed to create realm", o.out.err)))
                           ELSE Goto(op, calls, "umf_get"))
                 /\ remote' = o.after

\* Faulty variant: a Create whose overlay cannot fetch the realm deletes the
\* shell it made
updateManagedFieldsGetCompensating(p) ==
    LET op == ops[p]
    IN  /\ op.pc = "umf_get"
        /\ \E out \in GetRealmOutcomes(op.args.Name) :
             LET calls == Append(op.calls,
                                 Call("GetRealm", op.args.Name, op.token, Nil, out))
                 undo == ~out.ok /\ CallsOf(op, "CreateRealm") # {}
             IN  /\ Set(p, IF ~out.ok
                           THEN Return(op,
                                    IF undo
                                    THEN Append(calls,
                                                Call("DeleteRealm", op.args.Name,
                                                     op.token, Nil, Success(Nil)))
                                    ELSE calls,
                                    Err(Wrap("failed to update managed fields",
                                             Wrap("failed to get current realm",
                                                  out.err))))
                           ELSE Goto([op EXCEPT !.currentRealm = out.ret], calls,
                                     "umf_update"))
                 /\ remote' = IF undo THEN [remote EXCEPT ![op.args.Name] = Nil]
                              ELSE remote

\* updateManagedFields: client.GetRealm of the current realm
updateManagedFieldsGet(p) ==
    LET op == ops[p]
    IN  /\ op.pc = "umf_get"
        /\ \E out \in GetRealmOutcomes(op.args.Name) :
             LET calls == Append(op.calls,
                                 Call("GetRealm", op.args.Name, op.token, Nil, out))
             IN  Set(p, IF ~out.ok
                        THEN Return(op, calls,
                                 Err(Wrap("failed to update managed fields",
                                          Wrap("failed to get current realm",
                                               out.err))))
                        ELSE Goto([op EXCEPT !.currentRealm = out.ret], calls,
                                  "umf_update"))
        /\ UNCHANGED remote

\* Faulty variant: the realm fetched is kept where every invocation finds it,
\* and the overlay is made on whichever was fetched
updateManagedFieldsUpdateShared(p) ==
    LET op == ops[p]
    IN  /\ op.pc = "umf_update"
        /\ \E q \in DOMAIN ops :
             /\ ~IsNil(ops[q].currentRealm)
             /\ LET payload == updateRealm(op.args, Deref(ops[q].currentRealm))
                IN  \E o \in UpdateRealmOutcomes(payload) :
                      LET calls == Append(op.calls,
                                          Call("UpdateRealm", Deref(payload.Realm),
                                               op.token, payload, o.out))
                      IN  /\ Set(p, IF ~o.out.ok
                                    THEN Return(op, calls,
                                             Err(Wrap("failed to update managed fields",
                                                      Wrap("failed to update realm",
                                                           o.out.err))))
                                    ELSE Goto(op, calls, "read_get"))
                          /\ remote' = o.after

\* updateManagedFields: client.UpdateRealm with the overlaid copy
updateManagedFieldsUpdate(p) ==
    LET op == ops[p]
        payload == updateRealm(op.args, Deref(op.currentRealm))
    IN  /\ op.pc = "umf_update"
        /\ \E o \in UpdateRealmOutcomes(payload) :
             LET calls == Append(op.calls,
                                 Call("UpdateRealm", Deref(payload.Realm),
                                      op.token, payload, o.out))
             IN  /\ Set(p, IF ~o.out.ok
                           THEN Return(op, calls,
                                    Err(Wrap("failed to update managed fields",
                                             Wrap("failed to update realm",
                                                  o.out.err))))
                           ELSE Goto(op, calls, "read_get"))
                 /\ remote' = o.after

\* Faulty variant: Create and Update report their inputs instead of the state read
ResponseEcho(op, state) ==
    CASE op.kind = "Create" -> Ok(Some(op.args.Name), Some(dryRunState(op.args)))
      [] op.kind = "Update" -> Ok(Nil, Some(dryRunState(op.args)))
      [] op.kind = "Read" -> Ok(Some(op.id), Some(state))

\* The response of a handler whose readRealmState returned state
Response(op, state) ==
    CASE op.kind = "Create" -> Ok(Some(op.args.Name), Some(state))
      [] op.kind = "Update" -> Ok(Nil, Some(state))
      [] op.kind = "Read" -> Ok(Some(op.id), Some(state))

\* readRealmState: client.GetRealm and the projection of what it returns
readRealmState(p) ==
    LET op == ops[p]
    IN  /\ op.pc = "read_get"
        /\ \E out \in GetRealmOutcomes(op.name) :
             LET calls == Append(op.calls,
                                 Call("GetRealm", op.name, op.token, Nil, out))
             IN  Set(p, IF ~out.ok
                        THEN Return(op, calls,
                                 Err(Wrap("failed to read realm state",
                                          Wrap("failed to get realm", out.err))))
                        ELSE Return(op, calls,
                                    Response(op, realmState(Deref(out.ret)))))
        /\ UNCHANGED remote

\* Delete: client.DeleteRealm; a failure leads to realmExists
DeleteRealm(p) ==
    LET op == ops[p]
    IN  /\ op.pc = "delete"
        /\ \E o \in DeleteRealmOutcomes(op.name) :
             LET calls == Append(op.calls,
                                 Call("DeleteRealm", op.name, op.token, Nil, o.out))
             IN  /\ Set(p, IF ~o.out.ok
                           THEN Goto([op EXCEPT !.delErr = o.out.err], calls,
                                     "exists_login")
                           ELSE Return(op, calls, Ok(Nil, Nil)))
                 /\ remote' = o.after

-----------------------------------------------------------------------------
(* Another writer: an administrator in the Keycloak console *)

AdminChanges == {"sslRequired", "disable", "delete"}

adminWritten(realm, change) ==
    CASE change = "sslRequired" -> Some([realm EXCEPT !.SslRequired = Some("all")])
      [] change = "disable" -> Some([realm EXCEPT !.Enabled = Some(FALSE)])
      [] change = "delete" -> Nil

\* The administrator changes realm name; every invocation that works on, or
\* last worked on, that realm has had another writer
AdminWrite(name, change) ==
    /\ ~IsNil(remote[name])
    /\ adminWritten(Deref(remote[name]), change) # remote[name]
    /\ remote' = [remote EXCEPT ![name] = adminWritten(Deref(@), change)]
    /\ ops' = [p \in DOMAIN ops |->
                 IF ops[p].name = name
                 THEN [ops[p] EXCEPT !.interfered = TRUE] ELSE ops[p]]

-----------------------------------------------------------------------------
(* KeycloakProvider.Configure (config.go) *)

\* No conversion in hand
ConvOff ==
    [pc |-> "off", c |-> Nil, m |-> Nil, back |-> Nil, s |-> << >>, n |-> Nil,
     realm |-> Nil, state |-> Nil]

\* ProviderConfig as the runtime hands it to Configure
ProviderConfigs ==
    [URL : {"", "http://localhost:8080"},
     Username : {"", "admin"},
     Password : {"", "admin"},
     Realm : {Nil, Some("master"), Some("ops")},
     BasePath : {Nil, Some("/"), Some("/auth")},
     Insecure : {Nil, Some(TRUE), Some(FALSE)}]

\* The token of the login that Configure makes
ConfigureToken == <<0, 0>>

\* The KeycloakProvider: its fields config, client and token, and for the
\* Configure that runs on it the configuration given, the position, the log
\* of the remote calls and the error returned
NewProvider ==
    [config |-> Nil, client |-> Nil, token |-> Nil,
     input |-> Nil, pc |-> "new", calls |-> << >>, result |-> NoResult]

\* Faulty variant: the password is not looked at
requiredMissingNoPassword(config) ==
    IF config.URL = "" THEN <<"keycloak URL is required">>
    ELSE IF config.Username = "" THEN <<"keycloak username is required">>
    ELSE << >>

\* The validation of the required fields: the error, or none
requiredMissing(config) ==
    IF config.URL = "" THEN <<"keycloak URL is required">>
    ELSE IF config.Username = "" THEN <<"keycloak username is required">>
    ELSE IF config.Password = "" THEN <<"keycloak password is required">>
    ELSE << >>

\* The defaults written into the optional fields that are nil
withDefaults(config) ==
    [config EXCEPT
       !.Realm = IF IsNil(@) THEN Some("master") ELSE @,
       !.BasePath = IF IsNil(@) THEN Some("/") ELSE @,
       !.Insecure = IF IsNil(@) THEN Some(FALSE) ELSE @]

\* Configure up to its login: validation, defaults, p.config = &config
ConfigureBegin(config) ==
    /\ provider.pc = "new"
    /\ provider' =
         IF requiredMissing(config) # << >>
         THEN [provider EXCEPT !.input = Some(config), !.pc = "done",
                               !.result = Err(requiredMissing(config))]
         ELSE [provider EXCEPT !.input = Some(config), !.pc = "login",
                               !.config = Some(withDefaults(config))]
    /\ UNCHANGED <<remote, ops, conv>>

\* Configure: client.LoginAdmin on the new client, and the return
ConfigureLogin ==
    /\ provider.pc = "login"
    /\ \E out \in LoginAdminOutcomes(ConfigureToken) :
         LET config == Deref(provider.config)
             calls == Append(provider.calls,
                             Call("LoginAdmin", Deref(config.Realm), Nil, Nil,
                                  out))
         IN  provider' =
               IF ~out.ok
               THEN [provider EXCEPT
                       !.pc = "done", !.calls = calls,
                       !.result = Err(Wrap("failed to authenticate with Keycloak",
                                           out.err))]
               ELSE [provider EXCEPT
                       !.pc = "done", !.calls = calls,
                       !.client = Some(config.URL), !.token = out.ret,
                       !.result = Ok(Nil, Nil)]
    /\ UNCHANGED <<remote, ops, conv>>

\* The provider the handlers run on: Configure has succeeded with the admin
\* realm left to its default
Configured ==
    LET config == [URL |-> "http://localhost:8080", Username |-> "admin",
                   Password |-> "admin", Realm |-> Nil, BasePath |-> Nil,
                   Insecure |-> Nil]
    IN  [NewProvider EXCEPT
           !.input = Some(config), !.config = Some(withDefaults(config)),
           !.client = Some(config.URL), !.token = Some(ConfigureToken),
           !.pc = "done", !.result = Ok(Nil, Nil),
           !.calls = <<Call("LoginAdmin", AdminRealm, Nil, Nil,
                            Success(Some(ConfigureToken)))>>]

ConfigureInit ==
    /\ remote = [n \in RealmNames |-> Nil]
    /\ ops = [p \in {1} |-> IdleOp]
    /\ conv = ConvOff
    /\ provider = NewProvider

ConfigureNext ==
    \/ \E config \in ProviderConfigs : ConfigureBegin(config)
    \/ ConfigureLogin

ConfigureSpec == ConfigureInit /\ [][ConfigureNext]_vars

-----------------------------------------------------------------------------
(* The inputs and the initial states *)

SmtpAuth ==
    [NilSmtp EXCEPT !.Host = Some("smtp.example.com"), !.Port = Some(GoInt(587)),
                    !.From = Some("noreply@example.com"),
                    !.StartTls = Some(TRUE), !.Auth = Some(TRUE),
                    !.Username = Some("mailer"), !.Password = Some("secret")]

SmtpNoAuth ==
    [NilSmtp EXCEPT !.Host = Some("smtp.example.com"), !.Port = Some(GoInt(25)),
                    !.StartTls = Some(FALSE), !.Auth = Some(FALSE),
                    !.Username = Some("mailer"), !.Password = Some("secret")]

\* The desired inputs the runtime hands to Create and Update for realm name
Desired(name) ==
    {Args(name),
     [Args(name) EXCEPT !.Enabled = Some(TRUE), !.DisplayName = Some("ACME")],
     [Args(name) EXCEPT !.LoginTheme = Some("custom")],
     [Args(name) EXCEPT !.Enabled = Some(FALSE),
                        !.DisplayNameHtml = Some("<b>ACME</b>"),
                        !.AccountTheme = Some("custom"),
                        !.AdminTheme = Some("custom"),
                        !.EmailTheme = Some("custom")],
     [Args(name) EXCEPT !.SmtpServer = Some(SmtpAuth)],
     [Args(name) EXCEPT !.SmtpServer = Some(SmtpNoAuth)]}

\* A realm an administrator has set up by hand
HandMadeRealm ==
    [ZeroRealm EXCEPT
       !.Realm = Some("acme"), !.Enabled = Some(TRUE),
       !.DisplayName = Some("ACME"),
       !.SMTPServer = Some([k \in {"host", "port", "auth", "user", "password",
                                   "replyTo"} |->
                              CASE k = "host" -> "mail.internal"
                                [] k = "port" -> <<"2", "5">>
                                [] k = "auth" -> "true"
                                [] k = "user" -> "admin"
                                [] k = "password" -> "hunter2"
                                [] k = "replyTo" -> "ops@example.com"]),
       !.SslRequired = Some("external"), !.RegistrationAllowed = Some(FALSE)]

\* Inputs that give the resource "acme" another name
Renamed == {[Args("other") EXCEPT !.DisplayName = Some("Other")]}

Init ==
    /\ remote \in {[n \in RealmNames |-> Nil],
                   [n \in RealmNames |->
                      IF n = "acme" THEN Some(HandMadeRealm) ELSE Nil]}
    /\ ops = [p \in {1} |-> IdleOp]
    /\ conv = ConvOff
    /\ provider = Configured

Next ==
    \/ \E p \in DOMAIN ops, args \in Desired("acme"), dryRun \in BOOLEAN :
         CreateBegin(p, args, dryRun) /\ UNCHANGED <<conv, provider>>
    \/ \E p \in DOMAIN ops, args \in Desired("acme") \cup Renamed,
            dryRun \in BOOLEAN :
         UpdateBegin(p, "acme", args, dryRun) /\ UNCHANGED <<conv, provider>>
    \/ \E p \in DOMAIN ops : ReadBegin(p, "acme") /\ UNCHANGED <<conv, provider>>
    \/ \E p \in DOMAIN ops : DeleteBegin(p, "acme") /\ UNCHANGED <<conv, provider>>
    \/ \E p \in DOMAIN ops : Login(p) /\ UNCHANGED <<conv, provider>>
    \/ \E p \in DOMAIN ops : realmExistsLogin(p) /\ UNCHANGED <<conv, provider>>
    \/ \E p \in DOMAIN ops : realmExistsGet(p) /\ UNCHANGED <<conv, provider>>
    \/ \E p \in DOMAIN ops : CreateShell(p) /\ UNCHANGED <<conv, provider>>
    \/ \E p \in DOMAIN ops : updateManagedFieldsGet(p) /\ UNCHANGED <<conv, provider>>
    \/ \E p \in DOMAIN ops : updateManagedFieldsUpdate(p) /\ UNCHANGED <<conv, provider>>
    \/ \E p \in DOMAIN ops : readRealmState(p) /\ UNCHANGED <<conv, provider>>
    \/ \E p \in DOMAIN ops : DeleteRealm(p) /\ UNCHANGED <<conv, provider>>
    \/ \E change \in AdminChanges : AdminWrite("acme", change) /\ UNCHANGED <<conv, provider>>

Spec == Init /\ [][Next]_vars

-----------------------------------------------------------------------------
(* Two invocations at once, each on a realm of its own *)

\* The realm invocation p works on
RealmOf(p) == IF p = 1 THEN "acme" ELSE "other"

\* The desired inputs for realm name
ConcurrentDesired(name) ==
    {[Args(name) EXCEPT !.Enabled = Some(TRUE), !.DisplayName = Some("ACME")],
     [Args(name) EXCEPT !.SmtpServer = Some(SmtpAuth)]}

ConcurrentInit ==
    /\ remote \in {[n \in RealmNames |-> Nil],
                   [n \in RealmNames |->
                      Some([HandMadeRealm EXCEPT !.Realm = Some(n)])]}
    /\ ops = [p \in {1, 2} |-> IdleOp]
    /\ conv = ConvOff
    /\ provider = Configured

\* Each invocation runs one handler
ConcurrentNext ==
    \/ \E p \in DOMAIN ops : \E args \in ConcurrentDesired(RealmOf(p)) :
         /\ ops[p].kind = "idle"
         /\ CreateBegin(p, args, FALSE) /\ UNCHANGED <<conv, provider>>
    \/ \E p \in DOMAIN ops : \E args \in ConcurrentDesired(RealmOf(p)) :
         /\ ops[p].kind = "idle"
         /\ UpdateBegin(p, RealmOf(p), args, FALSE)
         /\ UNCHANGED <<conv, provider>>
    \/ \E p \in DOMAIN ops :
         /\ ops[p].kind = "idle"
         /\ ReadBegin(p, RealmOf(p)) /\ UNCHANGED <<conv, provider>>
    \/ \E p \in DOMAIN ops :
         /\ ops[p].kind = "idle"
         /\ DeleteBegin(p, RealmOf(p)) /\ UNCHANGED <<conv, provider>>
    \/ \E p \in DOMAIN ops : Login(p) /\ UNCHANGED <<conv, provider>>
    \/ \E p \in DOMAIN ops : realmExistsLogin(p) /\ UNCHANGED <<conv, provider>>
    \/ \E p \in DOMAIN ops : realmExistsGet(p) /\ UNCHANGED <<conv, provider>>
    \/ \E p \in DOMAIN ops : CreateShell(p) /\ UNCHANGED <<conv, provider>>
    \/ \E p \in DOMAIN ops : updateManagedFieldsGet(p) /\ UNCHANGED <<conv, provider>>
    \/ \E p \in DOMAIN ops : updateManagedFieldsUpdate(p) /\ UNCHANGED <<conv, provider>>
    \/ \E p \in DOMAIN ops : readRealmState(p) /\ UNCHANGED <<conv, provider>>
    \/ \E p \in DOMAIN ops : DeleteRealm(p) /\ UNCHANGED <<conv, provider>>

ConcurrentSpec == ConcurrentInit /\ [][ConcurrentNext]_vars

-----------------------------------------------------------------------------
(* Update on its own, with both realms in the remote system *)

UpdateInit ==
    /\ remote = [n \in RealmNames |->
                   Some([HandMadeRealm EXCEPT !.Realm = Some(n)])]
    /\ ops = [p \in {1} |-> IdleOp]
    /\ conv = ConvOff
    /\ provider = Configured

\* An SMTP configuration with a port below zero
SmtpNegativePort ==
    [NilSmtp EXCEPT !.Host = Some("smtp.example.com"),
                    !.Port = Some(Negate(GoInt(1)))]

\* The inputs handed to Update: those of Desired, one with another name, one
\* with a negative port
UpdateDesired ==
    Desired("acme") \cup Renamed
      \cup {[Args("acme") EXCEPT !.SmtpServer = Some(SmtpNegativePort)]}

\* The resource is "acme"; the inputs keep its name or carry another
UpdateNext ==
    \/ \E p \in DOMAIN ops, args \in UpdateDesired, dryRun \in BOOLEAN :
         UpdateBegin(p, "acme", args, dryRun) /\ UNCHANGED <<conv, provider>>
    \/ \E p \in DOMAIN ops : Login(p) /\ UNCHANGED <<conv, provider>>
    \/ \E p \in DOMAIN ops : updateManagedFieldsGet(p) /\ UNCHANGED <<conv, provider>>
    \/ \E p \in DOMAIN ops : updateManagedFieldsUpdate(p) /\ UNCHANGED <<conv, provider>>
    \/ \E p \in DOMAIN ops : readRealmState(p) /\ UNCHANGED <<conv, provider>>

UpdateSpec == UpdateInit /\ [][UpdateNext]_vars

-----------------------------------------------------------------------------
(* The conversions on their own: each is applied to inputs from a bounded set *)

\* The largest int
MaxInt == [i \in 1..IntLimbs |-> IF i = IntLimbs THEN LimbBase \div 2 - 1
                                 ELSE LimbBase - 1]

\* The values of SmtpServerConfig.Port tried: the field is an int and nothing
\* in the provider restricts it
Ports == {GoInt(0), GoInt(25), GoInt(587), MaxInt, Negate(GoInt(1))}

\* The SmtpServerConfig values tried
Configs ==
    [Host : {Nil, Some("smtp.example.com")},
     Port : {Nil} \cup {Some(v) : v \in Ports},
     From : {Nil, Some("noreply@example.com")},
     FromName : {Nil, Some("ACME")},
     StartTls : {Nil, Some(TRUE), Some(FALSE)},
     Auth : {Nil, Some(TRUE), Some(FALSE)},
     Username : {Nil, Some("mailer")},
     Password : {Nil, Some("secret")}]

\* The map with the keys of r that are set
MapOf(r) == [k \in {x \in DOMAIN r : ~IsNil(r[x])} |-> Deref(r[k])]

\* The SMTP maps a remote realm may hold: any subset of the keys the provider
\* knows and one it does not, with well-formed and ill-formed values
WireMaps ==
    {MapOf(r) : r \in
       [host : {Nil, Some("mail.internal")},
        port : {Nil, Some(<<"2", "5">>), Some(<<"a", "b", "c">>)},
        starttls : {Nil, Some("true"), Some("false"), Some("TRUE")},
        auth : {Nil, Some("true"), Some("false"), Some("TRUE")},
        user : {Nil, Some("admin")},
        password : {Nil, Some("hunter2")},
        replyTo : {Nil, Some("ops@example.com")}]}

\* The length up to which every string over TextAlphabet is tried
MaxTextLen == 4

TextAlphabet == {"0", "5", "7", "8", "a", "-", " "}

\* 2^63 - 1, 2^63, 2^64 and 2^64 + 587 written in decimal
LongTexts ==
    {
    <<"9", "2", "2", "3", "3", "7", "2", "0", "3", "6", "8", "5", "4", "7",
      "7", "5", "8", "0", "7">>,
    <<"9", "2", "2", "3", "3", "7", "2", "0", "3", "6", "8", "5", "4", "7",
      "7", "5", "8", "0", "8">>,
    <<"1", "8", "4", "4", "6", "7", "4", "4", "0", "7", "3", "7", "0", "9",
      "5", "5", "1", "6", "1", "6">>,
    <<"1", "8", "4", "4", "6", "7", "4", "4", "0", "7", "3", "7", "0", "9",
      "5", "5", "2", "2", "0", "3">>}

Texts == UNION {[1..k -> TextAlphabet] : k \in 0..MaxTextLen} \cup LongTexts

\* The realm representations tried by the projection
Snapshots ==
    [Realm : {Some("acme")},
     Enabled : {Nil, Some(TRUE), Some(FALSE)},
     DisplayName : {Nil, Some("ACME")},
     DisplayNameHTML : {Nil, Some("<b>ACME</b>")},
     LoginTheme : {Nil, Some("custom")},
     AccountTheme : {Nil, Some("custom")},
     AdminTheme : {Nil, Some("custom")},
     EmailTheme : {Nil, Some("custom")},
     SMTPServer : {Nil, Some(EmptyMap), HandMadeRealm.SMTPServer,
                   Some(MapPut(EmptyMap, "host", "mail.internal"))},
     SslRequired : {Nil, Some("external")},
     RegistrationAllowed : {Some(FALSE)}]

ConvInit ==
    /\ remote = [n \in RealmNames |-> Nil]
    /\ provider = Configured
    /\ ops = [p \in {1} |-> IdleOp]
    /\ conv \in {[ConvOff EXCEPT !.pc = "config", !.c = Some(c)] : c \in Configs}
          \cup {[ConvOff EXCEPT !.pc = "map", !.m = Some(m)] : m \in WireMaps}
          \cup {[ConvOff EXCEPT !.pc = "text", !.s = s] : s \in Texts}
          \cup {[ConvOff EXCEPT !.pc = "snapshot", !.realm = Some(r)] :
                  r \in Snapshots}

\* convertSmtpConfig(c)
Encode ==
    /\ conv.pc = "config"
    /\ conv' = [conv EXCEPT !.pc = "wire",
                            !.m = Some(convertSmtpConfig(Deref(conv.c)))]
    /\ UNCHANGED <<remote, ops, provider>>

\* convertFromKeycloakSmtp(m), of a map just encoded or of a remote map
Decode ==
    /\ conv.pc \in {"wire", "map"}
    /\ conv' = [conv EXCEPT !.pc = "decoded",
                            !.back = convertFromKeycloakSmtp(Deref(conv.m))]
    /\ UNCHANGED <<remote, ops, provider>>

\* parseInt(s)
Parse ==
    /\ conv.pc = "text"
    /\ conv' = [conv EXCEPT !.pc = "parsed", !.n = parseInt(conv.s)]
    /\ UNCHANGED <<remote, ops, provider>>

\* The projection of readRealmState applied to a realm fetched
Project ==
    /\ conv.pc = "snapshot"
    /\ conv' = [conv EXCEPT !.pc = "projected",
                            !.state = Some(realmState(Deref(conv.realm)))]
    /\ UNCHANGED <<remote, ops, provider>>

ConvNext == Encode \/ Decode \/ Parse \/ Project

ConvSpec == ConvInit /\ [][ConvNext]_vars

-----------------------------------------------------------------------------
(* Properties *)

Ops == {ops[p] : p \in DOMAIN ops}

Returned(op) == op.pc = "done"

Succeeded(op) == op.pc = "done" /\ op.result.status = "ok"

\* The fields of a realm representation outside the managed set
UnmanagedFields == DOMAIN ZeroRealm \ {RepField(f) : f \in managedFields}

\* op is a non-dry-run invocation whose UpdateRealm has succeeded and that no
\* other writer has overlapped
CleanWrite(op) ==
    /\ ~op.dryRun /\ ~op.interfered
    /\ \E i \in CallsOf(op, "UpdateRealm") : op.calls[i].ok

\* C1: the payload of every UpdateRealm agrees, on every attribute outside the
\* managed set, with the realm that the GetRealm before it returned; and while
\* no other writer has written, a realm under a non-dry-run Update keeps the
\* unmanaged attributes it had when the Update began.
C1_UnmanagedPreserved ==
    \A op \in Ops :
      /\ \A i \in CallsOf(op, "UpdateRealm") :
           /\ i > 1 /\ op.calls[i - 1].call = "GetRealm" /\ op.calls[i - 1].ok
           /\ \A a \in UnmanagedFields :
                op.calls[i].arg[a] = Deref(op.calls[i - 1].ret)[a]
      /\ (op.kind = "Update" /\ ~op.dryRun /\ ~op.interfered /\ ~IsNil(op.pre))
           => /\ ~IsNil(remote[op.name])
              /\ \A a \in UnmanagedFields :
                   Deref(remote[op.name])[a] = Deref(op.pre)[a]

\* An Update has overwritten a managed field of a realm whose sslRequired an
\* administrator had changed, and that attribute is still as the administrator
\* left it
C1_Witness ==
    \E op \in Ops :
      /\ op.kind = "Update" /\ Succeeded(op) /\ CleanWrite(op)
      /\ Deref(op.pre).SslRequired = Some("all")
      /\ Deref(op.pre).LoginTheme # Some("custom")
      /\ Deref(remote[op.name]).LoginTheme = Some("custom")
      /\ Deref(remote[op.name]).SslRequired = Some("all")

\* C2: a managed field that is absent in the inputs of a non-dry-run Update has
\* the same remote value after the Update's write as before the Update, and
\* the Read that follows reports that value.
C2_AbsentMeansNoOp ==
    \A op \in Ops :
      /\ (op.kind = "Update" /\ CleanWrite(op))
           => \A f \in managedFields :
                IsNil(op.args[f])
                  => Deref(remote[op.name])[RepField(f)] = Deref(op.pre)[RepField(f)]
      /\ (op.kind = "Read" /\ Succeeded(op) /\ ~op.interfered /\ ~IsNil(op.prev))
           => \A f \in managedFields :
                IsNil(Deref(op.prev).args[f])
                  => Deref(op.result.state)[f]
                       = realmState(Deref(Deref(op.prev).pre))[f]

\* The Read after an Update that set only loginTheme, on a realm whose
\* displayName was "ACME", reports displayName "ACME" and the new theme
C2_Witness ==
    \E op \in Ops :
      /\ op.kind = "Read" /\ Succeeded(op) /\ ~op.interfered /\ ~IsNil(op.prev)
      /\ Deref(op.prev).args = [Args(op.name) EXCEPT !.LoginTheme = Some("custom")]
      /\ Deref(Deref(op.prev).pre).DisplayName = Some("ACME")
      /\ Deref(Deref(op.prev).pre).LoginTheme = Nil
      /\ Deref(op.result.state).DisplayName = Some("ACME")
      /\ Deref(op.result.state).LoginTheme = Some("custom")

\* C3: a non-dry-run Update that repeats the inputs of the Update just before
\* it, with no other writer in between, sends the payload the first one sent
\* and leaves the remote realm as the first one left it.
C3_OverlayIdempotent ==
    \A op \in Ops :
      (op.kind = "Update" /\ CleanWrite(op) /\ ~IsNil(op.prev))
        => /\ payloadOf(op) = Deref(op.prev).payload
           /\ remote[op.name] = op.pre
           /\ remote[op.name] = Deref(op.prev).payload

\* The second of two equal Updates has written, and the first one had changed
\* the realm
C3_Witness ==
    \E op \in Ops :
      /\ op.kind = "Update" /\ Succeeded(op) /\ CleanWrite(op) /\ ~IsNil(op.prev)
      /\ Deref(op.prev).pre # op.pre
      /\ ~IsNil(op.args.AdminTheme)

\* The field of SmtpServerConfig that an SMTP wire key encodes
SmtpKeyField(k) ==
    CASE k = "host" -> "Host"
      [] k = "port" -> "Port"
      [] k = "from" -> "From"
      [] k = "fromDisplayName" -> "FromName"
      [] k = "starttls" -> "StartTls"
      [] k = "auth" -> "Auth"
      [] k = "user" -> "Username"
      [] k = "password" -> "Password"

SmtpKeys ==
    {"host", "port", "from", "fromDisplayName", "starttls", "auth", "user",
     "password"}

\* C4: when smtpServer is present in the inputs, the SMTP map of the UpdateRealm
\* payload is the encoding of the inputs' smtpServer: it holds the key auth and
\* otherwise only keys of fields that are present in the inputs, whatever the
\* remote map held; when smtpServer is absent, the payload carries the SMTP map
\* that GetRealm returned.
C4_SmtpReplacedWhole ==
    \A op \in Ops :
      \A i \in CallsOf(op, "UpdateRealm") :
        LET payload == op.calls[i].arg
            current == Deref(op.calls[i - 1].ret)
        IN  IF IsNil(op.args.SmtpServer)
            THEN payload.SMTPServer = current.SMTPServer
            ELSE LET smtp == Deref(op.args.SmtpServer)
                     m == Deref(payload.SMTPServer)
                 IN  /\ ~IsNil(payload.SMTPServer)
                     /\ m = convertSmtpConfig(smtp)
                     /\ DOMAIN m \subseteq SmtpKeys
                     /\ \A k \in DOMAIN m \ {"auth"} : ~IsNil(smtp[SmtpKeyField(k)])
                     /\ "host" \in DOMAIN m => m["host"] = Deref(smtp.Host)

\* An Update with smtpServer present has written over a remote SMTP map that
\* held a key (replyTo) the encoding does not produce, and the key is gone
C4_Witness ==
    \E op \in Ops :
      \E i \in CallsOf(op, "UpdateRealm") :
        /\ op.calls[i].ok
        /\ ~IsNil(op.args.SmtpServer)
        /\ ~IsNil(Deref(op.calls[i - 1].ret).SMTPServer)
        /\ "replyTo" \in DOMAIN Deref(Deref(op.calls[i - 1].ret).SMTPServer)
        /\ "replyTo" \notin DOMAIN Deref(Deref(remote[op.name]).SMTPServer)

\* C5: an absent enabled becomes true only in the representation Create sends
\* to CreateRealm; the payload of every UpdateRealm, in Update and in Create,
\* carries for an absent enabled the value that GetRealm returned.
C5_EnabledDefaultOnlyAtCreation ==
    \A op \in Ops :
      /\ \A i \in CallsOf(op, "CreateRealm") :
           /\ op.kind = "Create"
           /\ op.calls[i].arg.Enabled
                = IF IsNil(op.args.Enabled) THEN Some(TRUE) ELSE op.args.Enabled
      /\ \A i \in CallsOf(op, "UpdateRealm") :
           IsNil(op.args.Enabled)
             => op.calls[i].arg.Enabled = Deref(op.calls[i - 1].ret).Enabled
      /\ (IsNil(op.args.Enabled) /\ CleanWrite(op) /\ ~IsNil(op.pre))
           => Deref(remote[op.name]).Enabled = Deref(op.pre).Enabled

\* A Create without enabled, on a realm that exists and that an administrator
\* had disabled, has written, and the realm is still disabled
C5_Witness ==
    \E op \in Ops :
      /\ op.kind = "Create" /\ Succeeded(op) /\ CleanWrite(op)
      /\ IsNil(op.args.Enabled)
      /\ ~IsNil(op.pre) /\ Deref(op.pre).Enabled = Some(FALSE)
      /\ CallsOf(op, "CreateRealm") = {}
      /\ Deref(remote[op.name]).Enabled = Some(FALSE)

\* The error texts that the existence check takes for an absent realm
AbsentTexts == {<<"404">>, <<"realm not found">>}

\* C6: a non-dry-run Create calls CreateRealm exactly when its existence check
\* has reported the realm absent, and then with a representation that carries
\* the name, the enabled flag and the displayName of the inputs and nothing
\* else; when the check has found the realm, Create makes no CreateRealm call
\* and its next call is the GetRealm of the overlay.
C6_ShellIffAbsent ==
    \A op \in Ops :
      /\ \A i \in CallsOf(op, "CreateRealm") :
           /\ op.kind = "Create" /\ ~op.dryRun /\ i = 4
           /\ op.calls[3].call = "GetRealm" /\ ~op.calls[3].ok
           /\ op.calls[3].err \in AbsentTexts
           /\ op.calls[i].arg.Realm = Some(op.args.Name)
           /\ ~IsNil(op.calls[i].arg.Enabled)
           /\ op.calls[i].arg.DisplayName = op.args.DisplayName
           /\ \A a \in DOMAIN ZeroRealm \ {"Realm", "Enabled", "DisplayName"} :
                IsNil(op.calls[i].arg[a])
      /\ (op.kind = "Create" /\ ~op.dryRun /\ Len(op.calls) >= 3
            /\ op.calls[3].call = "GetRealm")
           => IF op.calls[3].ok
              THEN /\ CallsOf(op, "CreateRealm") = {}
                   /\ Len(op.calls) = 3 => op.pc = "umf_get"
                   /\ Len(op.calls) > 3 => op.calls[4].call = "GetRealm"
              ELSE IF op.calls[3].err \in AbsentTexts
              THEN /\ Len(op.calls) = 3 => op.pc = "create"
                   /\ Len(op.calls) > 3 => op.calls[4].call = "CreateRealm"
              ELSE /\ Len(op.calls) = 3
                   /\ Returned(op) /\ op.result.status = "error"

\* A Create with a displayName has created the shell of a realm that did not
\* exist and has returned
C6_Witness ==
    \E op \in Ops :
      /\ op.kind = "Create" /\ Succeeded(op) /\ ~op.dryRun
      /\ ~IsNil(op.args.DisplayName)
      /\ \E i \in CallsOf(op, "CreateRealm") : op.calls[i].ok

\* C7: when a non-dry-run Create of a realm that did not exist succeeds and no
\* other writer has written, the remote system holds a realm of that name in
\* which every managed field present in the inputs has the inputs' value (the
\* SMTP map being the encoding of the inputs' smtpServer) and enabled is true
\* when the inputs leave it out; the resource id and the id of the reported
\* state are the inputs' name.
C7_CreateOutcome ==
    \A op \in Ops :
      /\ (op.kind = "Create" /\ Succeeded(op) /\ ~op.dryRun /\ ~op.interfered
            /\ IsNil(op.pre))
           => /\ ~IsNil(remote[op.name])
              /\ LET r == Deref(remote[op.name])
                 IN  /\ r.Realm = Some(op.args.Name)
                     /\ \A f \in StringFields :
                          ~IsNil(op.args[f]) => r[RepField(f)] = op.args[f]
                     /\ r.Enabled = IF IsNil(op.args.Enabled) THEN Some(TRUE)
                                    ELSE op.args.Enabled
                     /\ ~IsNil(op.args.SmtpServer)
                          => r.SMTPServer
                               = Some(convertSmtpConfig(Deref(op.args.SmtpServer)))
      /\ (op.kind = "Create" /\ Succeeded(op) /\ ~op.dryRun)
           => /\ op.result.id = Some(op.args.Name)
              /\ Deref(op.result.state).ID = op.args.Name

\* A Create that gives a login theme and no enabled flag has made a realm that
\* did not exist: the realm is enabled and has the theme
C7_Witness ==
    \E op \in Ops :
      /\ op.kind = "Create" /\ Succeeded(op) /\ ~op.dryRun /\ ~op.interfered
      /\ IsNil(op.pre) /\ IsNil(op.args.Enabled)
      /\ op.args.LoginTheme = Some("custom")
      /\ Deref(remote[op.name]).Enabled = Some(TRUE)
      /\ Deref(remote[op.name]).LoginTheme = Some("custom")
      /\ op.result.id = Some("acme")

\* C8: the state that a successful non-dry-run Create or Update reports is read
\* from the realm that its last remote call, a GetRealm made after its
\* UpdateRealm had returned, fetched: every reported managed field is that
\* realm's value.
C8_ReadAfterWrite ==
    \A op \in Ops :
      (op.kind \in {"Create", "Update"} /\ Succeeded(op) /\ ~op.dryRun)
        => LET n == Len(op.calls)
               got == Deref(op.calls[n].ret)
               st == Deref(op.result.state)
           IN  /\ n >= 2
               /\ op.calls[n].call = "GetRealm" /\ op.calls[n].ok
               /\ op.calls[n - 1].call = "UpdateRealm" /\ op.calls[n - 1].ok
               /\ st.Name = Deref(got.Realm)
               /\ st.Enabled = got.Enabled
               /\ \A f \in StringFields : st[f] = got[RepField(f)]
               /\ st.SmtpServer
                    = IF IsNil(got.SMTPServer) THEN Nil
                      ELSE convertFromKeycloakSmtp(Deref(got.SMTPServer))

\* An Update with enabled = true reports enabled = false: an administrator
\* disabled the realm between the Update's write and its final fetch
C8_Witness ==
    \E op \in Ops :
      /\ op.kind = "Update" /\ Succeeded(op) /\ ~op.dryRun
      /\ op.args.Enabled = Some(TRUE)
      /\ Deref(op.result.state).Enabled = Some(FALSE)
      /\ Deref(remote[op.name]).Enabled = Some(FALSE)

\* C9: a Create or an Update invoked as a dry run returns without having made
\* any remote call, and returns successfully.
C9_DryRunNoRemoteCall ==
    \A op \in Ops :
      (op.dryRun /\ Returned(op))
        => op.calls = << >> /\ op.result.status = "ok"

\* C10: the state a successful dry run of Create or Update reports has the
\* inputs' name as id and name and, for every managed field, the inputs' value,
\* absent where the inputs are; the id Create returns is the inputs' name.
C10_DryRunEcho ==
    \A op \in Ops :
      (op.dryRun /\ Succeeded(op))
        => LET st == Deref(op.result.state)
           IN  /\ st.ID = op.args.Name /\ st.Name = op.args.Name
               /\ \A f \in managedFields : st[f] = op.args[f]
               /\ op.kind = "Create" => op.result.id = Some(op.args.Name)

\* A dry run of Create, without enabled and displayName, on a realm that exists,
\* is disabled and is called "ACME", reports neither field
C10_Witness ==
    \E op \in Ops :
      /\ op.kind = "Create" /\ op.dryRun /\ Succeeded(op)
      /\ IsNil(op.args.Enabled) /\ IsNil(op.args.DisplayName)
      /\ ~IsNil(remote[op.name])
      /\ Deref(remote[op.name]).Enabled = Some(FALSE)
      /\ Deref(remote[op.name]).DisplayName = Some("ACME")
      /\ IsNil(Deref(op.result.state).Enabled)
      /\ IsNil(Deref(op.result.state).DisplayName)

\* C11: a Read whose existence check is told by the remote system that the
\* realm does not exist returns, without an error, the empty result (empty id,
\* empty state); a Read that has fetched the realm returns the id it was given
\* and the projection of the realm fetched; every other Read returns an error.
C11_ReadNotFound ==
    \A op \in Ops :
      (op.kind = "Read" /\ Returned(op))
        => LET n == Len(op.calls)
               last == op.calls[n]
           IN  IF n = 3 /\ last.call = "GetRealm" /\ ~last.ok
                  /\ last.err \in NotFoundErrs
               THEN op.result = Ok(Some(""), Some(ZeroState))
               ELSE IF n = 4 /\ last.call = "GetRealm" /\ last.ok
               THEN op.result = Ok(Some(op.id),
                                   Some(realmState(Deref(last.ret))))
               ELSE op.result.status = "error"

\* Every failure the remote system has answered this operation with says that
\* the realm does not exist
OnlyNotFound(op) ==
    \A i \in 1..Len(op.calls) :
      ~op.calls[i].ok => op.calls[i].err \in NotFoundErrs

\* C12: a Delete of a realm that was absent when the Delete began, to which
\* the remote system answers nothing worse than that the realm does not
\* exist, returns success.
C12_DeleteIdempotent ==
    \A op \in Ops :
      (op.kind = "Delete" /\ Returned(op) /\ IsNil(op.pre) /\ OnlyNotFound(op))
        => op.result.status = "ok"

\* C13: a Delete whose DeleteRealm has failed returns success exactly when the
\* existence check that follows logs in, fetches and is told that the realm
\* is absent; in every other case (the realm is still there, or the check
\* itself fails) it returns "failed to delete realm" around the error of
\* DeleteRealm, not around the error of the check.
C13_DeleteFailureWrapped ==
    \A op \in Ops :
      (op.kind = "Delete" /\ Returned(op) /\ Len(op.calls) >= 2
         /\ op.calls[2].call = "DeleteRealm" /\ ~op.calls[2].ok)
        => LET absent == /\ Len(op.calls) = 4
                         /\ op.calls[3].ok
                         /\ ~op.calls[4].ok
                         /\ op.calls[4].err \in AbsentTexts
           IN  IF absent THEN op.result.status = "ok"
               ELSE /\ op.result.status = "error"
                    /\ op.result.err
                         = <<"failed to delete realm">> \o op.calls[2].err

\* DeleteRealm has failed with "404", the login of the existence check has
\* failed with another error, and Delete has returned the first of the two
C13_Witness ==
    \E op \in Ops :
      /\ op.kind = "Delete" /\ Returned(op) /\ Len(op.calls) = 3
      /\ op.calls[2].call = "DeleteRealm" /\ op.calls[2].err = <<"404">>
      /\ op.calls[3].call = "LoginAdmin" /\ op.calls[3].err = LoginErr
      /\ op.result.err = <<"failed to delete realm", "404">>

\* C14: the projection of a realm has the realm's name as id and as name and,
\* for each managed field, the realm's value when it is set and absent
\* otherwise: an unset enabled is reported unset, an SMTP map without a key
\* yields no value for that key's sub-field, and the state has no field
\* besides id, name and the managed fields.
C14_Projection ==
    conv.pc = "projected"
      => LET r == Deref(conv.realm)
             st == Deref(conv.state)
         IN  /\ st.ID = Deref(r.Realm) /\ st.Name = Deref(r.Realm)
             /\ st.Enabled = r.Enabled
             /\ \A f \in StringFields : st[f] = r[RepField(f)]
             /\ DOMAIN st = {"ID", "Name"} \cup managedFields
             /\ IF IsNil(r.SMTPServer) \/ DOMAIN Deref(r.SMTPServer) = {}
                THEN IsNil(st.SmtpServer)
                ELSE LET m == Deref(r.SMTPServer)
                         sm == Deref(st.SmtpServer)
                     IN  /\ ~IsNil(st.SmtpServer)
                         /\ \A k \in SmtpKeys \ DOMAIN m :
                              IsNil(sm[SmtpKeyField(k)])
                         /\ \A k \in {"host", "from", "fromDisplayName"} :
                              k \in DOMAIN m
                                => sm[SmtpKeyField(k)] = Some(m[k])

\* The projection of a realm whose enabled is unset and whose SMTP map has a
\* host and neither starttls nor port: none of the three is reported
C14_Witness ==
    /\ conv.pc = "projected"
    /\ IsNil(Deref(conv.realm).Enabled)
    /\ Deref(conv.realm).SMTPServer = Some(MapPut(EmptyMap, "host", "mail.internal"))
    /\ IsNil(Deref(conv.state).Enabled)
    /\ Deref(Deref(conv.state).SmtpServer).Host = Some("mail.internal")
    /\ IsNil(Deref(Deref(conv.state).SmtpServer).StartTls)
    /\ IsNil(Deref(Deref(conv.state).SmtpServer).Port)
    /\ IsNil(Deref(Deref(conv.state).SmtpServer).Auth)

\* C15: every state that a Create, a Read or an Update reports has its id
\* equal to its name, and that value is the identifier the runtime holds for
\* the resource: the id Create returns, the id given to Read, the id given to
\* Update.
C15_IdIsName ==
    \A op \in Ops :
      (op.kind \in {"Create", "Read", "Update"} /\ Succeeded(op)
         /\ op.result.id # Some(""))
        => LET st == Deref(op.result.state)
           IN  /\ st.ID = st.Name
               /\ st.ID = IF op.kind = "Create" THEN Deref(op.result.id)
                          ELSE op.id

\* C16: the map that convertSmtpConfig makes of a configuration whose auth is
\* present and true has auth = "true" and holds user and password exactly
\* when the configuration gives them, with its values; of any other
\* configuration it has auth = "false" and neither user nor password.
C16_CredentialsOnlyWithAuth ==
    (conv.pc = "wire")
      => LET c == Deref(conv.c)
             m == Deref(conv.m)
         IN  IF c.Auth = Some(TRUE)
             THEN /\ "auth" \in DOMAIN m /\ m["auth"] = "true"
                  /\ "user" \in DOMAIN m <=> ~IsNil(c.Username)
                  /\ "password" \in DOMAIN m <=> ~IsNil(c.Password)
                  /\ ~IsNil(c.Username) => m["user"] = Deref(c.Username)
                  /\ ~IsNil(c.Password) => m["password"] = Deref(c.Password)
             ELSE /\ "auth" \in DOMAIN m /\ m["auth"] = "false"
                  /\ "user" \notin DOMAIN m
                  /\ "password" \notin DOMAIN m

\* A configuration with auth = false, a username and a password has been
\* encoded: the map has neither
C16_Witness ==
    /\ conv.pc = "wire"
    /\ Deref(conv.c).Auth = Some(FALSE)
    /\ Deref(conv.c).Username = Some("mailer")
    /\ Deref(conv.c).Password = Some("secret")
    /\ Deref(conv.m)["auth"] = "false"
    /\ DOMAIN Deref(conv.m) \cap {"user", "password"} = {}

\* The sub-fields of SmtpServerConfig that convertSmtpConfig always encodes
PlainSubFields == {"Host", "Port", "From", "FromName", "StartTls", "Auth"}

\* Decoding the encoding of c has given c's username and password when c.auth
\* is true, and neither when it is false
CredentialsRoundTrip(c, back) ==
    /\ c.Auth = Some(TRUE)
         => back.Username = c.Username /\ back.Password = c.Password
    /\ c.Auth = Some(FALSE)
         => IsNil(back.Username) /\ IsNil(back.Password)

\* C17 as stated: for every configuration c, decoding the encoding of c gives
\* back each of host, port, from, fromName, startTls and auth that c has, and
\* the credentials according to auth.
C17_RoundTripAnyPort ==
    (conv.pc = "decoded" /\ ~IsNil(conv.c))
      => LET c == Deref(conv.c)
             back == Deref(conv.back)
         IN  /\ ~IsNil(conv.back)
             /\ \A f \in PlainSubFields : ~IsNil(c[f]) => back[f] = c[f]
             /\ CredentialsRoundTrip(c, back)

\* C17: for every configuration c whose port, when present, is not negative,
\* decoding the encoding of c gives back each of host, port, from, fromName,
\* startTls and auth that c has, and the credentials according to auth; a
\* negative port is encoded with a minus sign and decoded as absent.
C17_RoundTrip ==
    (conv.pc = "decoded" /\ ~IsNil(conv.c))
      => LET c == Deref(conv.c)
             back == Deref(conv.back)
         IN  /\ ~IsNil(conv.back)
             /\ \A f \in PlainSubFields \ {"Port"} :
                  ~IsNil(c[f]) => back[f] = c[f]
             /\ ~IsNil(c.Port)
                  => back.Port = IF IsNegative(Deref(c.Port)) THEN Nil
                                 ELSE c.Port
             /\ CredentialsRoundTrip(c, back)

\* A configuration with every sub-field present, port 587 and auth = true has
\* gone through the encoding and back and is what it was
C17_Witness ==
    /\ conv.pc = "decoded"
    /\ ~IsNil(conv.c)
    /\ \A f \in DOMAIN NilSmtp : ~IsNil(Deref(conv.c)[f])
    /\ Deref(conv.c).Port = Some(GoInt(587))
    /\ Deref(conv.c).Auth = Some(TRUE)
    /\ Deref(conv.m)["port"] = <<"5", "8", "7">>
    /\ conv.back = conv.c

\* s without its leading zeros
RECURSIVE StripZeros(_)
StripZeros(s) ==
    IF Len(s) > 1 /\ Head(s) = "0" THEN StripZeros(Tail(s)) ELSE s

\* The int v is the number that the digit string s denotes: v is not negative
\* and written in decimal it is s, leading zeros apart
Denotes(v, s) == ~IsNegative(v) /\ FormatNat(v) = StripZeros(s)

DecimalDigits == {"0", "1", "2", "3", "4", "5", "6", "7", "8", "9"}

\* C18: parseInt gives, for a non-empty string of decimal digits, the integer
\* that the string denotes, and for the empty string and for a string with any
\* other character, no integer.
C18_ParseInt ==
    (conv.pc = "parsed")
      => IF conv.s # << >> /\ \A i \in 1..Len(conv.s) : conv.s[i] \in DecimalDigits
         THEN ~IsNil(conv.n) /\ Denotes(Deref(conv.n), conv.s)
         ELSE IsNil(conv.n)

\* C19: convertFromKeycloakSmtp of a non-empty map gives a configuration in
\* which startTls and auth are present exactly when their key is in the map
\* and true exactly when the string stored is "true", and in which username
\* and password are the map's user and password when the auth key is there
\* with "true" and are absent otherwise; of an empty map it gives nothing, and
\* a realm without an SMTP map is projected to a state without smtpServer.
C19_Decode ==
    /\ (conv.pc = "decoded" /\ IsNil(conv.c))
         => LET m == Deref(conv.m)
                authTrue == "auth" \in DOMAIN m /\ m["auth"] = "true"
            IN  IF DOMAIN m = {} THEN IsNil(conv.back)
                ELSE /\ ~IsNil(conv.back)
                     /\ \A k \in {"starttls", "auth"} :
                          Deref(conv.back)[SmtpKeyField(k)]
                            = IF k \in DOMAIN m THEN Some(m[k] = "true") ELSE Nil
                     /\ \A k \in {"user", "password"} :
                          Deref(conv.back)[SmtpKeyField(k)]
                            = IF authTrue /\ k \in DOMAIN m THEN Some(m[k])
                              ELSE Nil
    /\ (conv.pc = "projected" /\ IsNil(Deref(conv.realm).SMTPServer))
         => IsNil(Deref(conv.state).SmtpServer)

\* A map with auth = "TRUE", starttls = "TRUE", a user and a password has been
\* decoded: auth and startTls are false and there are no credentials
C19_Witness ==
    /\ conv.pc = "decoded" /\ IsNil(conv.c)
    /\ {"auth", "starttls", "user", "password"} \subseteq DOMAIN Deref(conv.m)
    /\ Deref(conv.m)["auth"] = "TRUE" /\ Deref(conv.m)["starttls"] = "TRUE"
    /\ Deref(conv.back).Auth = Some(FALSE)
    /\ Deref(conv.back).StartTls = Some(FALSE)
    /\ IsNil(Deref(conv.back).Username) /\ IsNil(Deref(conv.back).Password)

\* C20: realmExists logs in and fetches the realm, and returns (true, no
\* error) when the fetch succeeds, (false, no error) when the fetch fails with
\* the text "404" or the text "realm not found", (false, the error) when the
\* fetch fails with any other text, a not-found among them, and (false,
\* "failed to authenticate" around the error) when its login fails.
C20_RealmExists ==
    \A op \in Ops :
      ~IsNil(op.checked)
        => LET k == IF op.kind = "Delete" THEN 3 ELSE 2
               login == op.calls[k]
               r == Deref(op.checked)
           IN  /\ login.call = "LoginAdmin"
               /\ IF ~login.ok
                  THEN /\ Len(op.calls) = k
                       /\ r = [exists |-> FALSE,
                               err |-> <<"failed to authenticate">> \o login.err]
                  ELSE LET get == op.calls[k + 1]
                       IN  /\ get.call = "GetRealm" /\ get.realm = op.name
                           /\ r = IF get.ok
                                  THEN [exists |-> TRUE, err |-> << >>]
                                  ELSE IF get.err \in AbsentTexts
                                  THEN [exists |-> FALSE, err |-> << >>]
                                  ELSE [exists |-> FALSE, err |-> get.err]

\* The realm is absent, the client has said so in words of its own, and
\* realmExists has returned them as an error
C20_Witness ==
    \E op \in Ops :
      /\ Returned(op) /\ op.result.status = "error"
      /\ op.checked = Some([exists |-> FALSE,
                            err |-> <<"404 Not Found: Realm not found.">>])
      /\ IsNil(remote[op.name])

\* C22: Configure, given a configuration whose url, username or password is
\* empty, returns an error with no remote call made, no client and no token
\* kept; given any other configuration it has, from before its login on, the
\* configuration's realm, basePath and insecure where they are given and
\* "master", "/" and false where they are not, and it logs in to that realm.
C22_Configure ==
    provider.pc # "new"
      => LET given == Deref(provider.input)
         IN  IF given.URL = "" \/ given.Username = "" \/ given.Password = ""
             THEN /\ provider.pc = "done"
                  /\ provider.result.status = "error"
                  /\ provider.calls = << >>
                  /\ IsNil(provider.client) /\ IsNil(provider.token)
             ELSE LET config == Deref(provider.config)
                  IN  /\ ~IsNil(provider.config)
                      /\ config.Realm = IF IsNil(given.Realm) THEN Some("master")
                                        ELSE given.Realm
                      /\ config.BasePath = IF IsNil(given.BasePath) THEN Some("/")
                                           ELSE given.BasePath
                      /\ config.Insecure = IF IsNil(given.Insecure)
                                           THEN Some(FALSE) ELSE given.Insecure
                      /\ \A i \in 1..Len(provider.calls) :
                           /\ provider.calls[i].call = "LoginAdmin"
                           /\ provider.calls[i].realm = Deref(config.Realm)

\* Configure has turned down a configuration that lacks only the password
C22_Witness ==
    /\ provider.pc = "done"
    /\ Deref(provider.input).URL # "" /\ Deref(provider.input).Username # ""
    /\ Deref(provider.input).Password = ""
    /\ provider.result = Err(<<"keycloak password is required">>)
    /\ provider.calls = << >>

\* The remote calls that touch a realm
RealmCalls == {"GetRealm", "CreateRealm", "UpdateRealm", "DeleteRealm"}

\* C21: in the log of every invocation, the token of each GetRealm,
\* CreateRealm, UpdateRealm and DeleteRealm is the one a successful LoginAdmin
\* earlier in the same log returned; it is neither the token Configure kept
\* nor a token issued to another invocation; and a LoginAdmin that failed is
\* the last call of its invocation, which has returned an error.
C21_FreshLogin ==
    \A p \in DOMAIN ops :
      LET calls == ops[p].calls
      IN  \A i \in 1..Len(calls) :
            /\ calls[i].call \in RealmCalls
                 => /\ \E j \in 1..(i - 1) :
                         /\ calls[j].call = "LoginAdmin" /\ calls[j].ok
                         /\ calls[j].ret = calls[i].token
                    /\ calls[i].token # provider.token
                    /\ \A q \in DOMAIN ops \ {p} :
                         \A j \in CallsOf(ops[q], "LoginAdmin") :
                           ops[q].calls[j].ret # calls[i].token
            /\ (calls[i].call = "LoginAdmin" /\ ~calls[i].ok)
                 => /\ i = Len(calls)
                    /\ Returned(ops[p]) /\ ops[p].result.status = "error"

\* One invocation has deleted its realm and returned; the other, begun
\* after, has logged in itself and fetched its realm
C21_Witness ==
    /\ Succeeded(ops[1]) /\ ops[1].kind = "Delete"
    /\ ops[1].calls[2].call = "DeleteRealm"
    /\ ops[1].calls[2].token = ops[1].calls[1].ret
    /\ ops[2].kind = "Update" /\ ops[2].pc = "umf_update"
    /\ ops[2].calls[2].call = "GetRealm"
    /\ ops[2].calls[2].token = ops[2].calls[1].ret
    /\ ops[2].calls[2].token # ops[1].calls[2].token

\* The realm as the remote call c leaves it when it was r before the call
AfterCall(c, r) ==
    CASE c.call = "CreateRealm" /\ c.ok -> Some(createdRealm(c.arg))
      [] c.call = "UpdateRealm" /\ c.ok -> Some(c.arg)
      [] c.call = "DeleteRealm" /\ c.ok -> Nil
      [] OTHER -> r

\* The remote system can answer the call c as logged when the realm is r
Answers(c, r) ==
    CASE c.call = "GetRealm" ->
           IF c.ok THEN ~IsNil(r) /\ c.ret \in {Nil, r}
           ELSE c.err = ServerErr \/ (IsNil(r) /\ c.err \in NotFoundErrs)
      [] c.call = "CreateRealm" ->
           IF c.ok THEN IsNil(r)
           ELSE c.err = ServerErr \/ (~IsNil(r) /\ c.err = ConflictErr)
      [] c.call \in {"UpdateRealm", "DeleteRealm"} ->
           IF c.ok THEN ~IsNil(r)
           ELSE c.err = ServerErr \/ (IsNil(r) /\ c.err \in NotFoundErrs)
      [] OTHER -> TRUE

\* The realm of op after the first k calls of its log, had op run with no
\* other invocation beside it
RECURSIVE AloneAfter(_, _)
AloneAfter(op, k) ==
    IF k = 0 THEN op.pre ELSE AfterCall(op.calls[k], AloneAfter(op, k - 1))

\* C25: with two invocations on different realms interleaved in any way,
\* every remote call of each is on its own realm and is answered as it
\* would be had the invocation run alone from the state its realm had when
\* it began, its realm is at every moment what its own calls made of it,
\* and the state it reports is the projection of that realm.
C25_NoInterference ==
    \A p \in DOMAIN ops :
      LET op == ops[p]
      IN  op.kind # "idle"
            => /\ \A k \in 1..Len(op.calls) :
                    op.calls[k].call \in RealmCalls
                      => /\ op.calls[k].realm = op.name
                         /\ Answers(op.calls[k], AloneAfter(op, k - 1))
               /\ remote[op.name] = AloneAfter(op, Len(op.calls))
               /\ (Succeeded(op) /\ ~IsNil(op.result.state)
                   /\ ~IsNil(remote[op.name]))
                    => op.result.state =
                         Some(realmState(Deref(AloneAfter(op, Len(op.calls)))))

\* One invocation has written its realm while the other is between the
\* fetch and the write of its own
C25_Witness ==
    /\ ops[1].kind = "Update" /\ ops[1].pc = "umf_update"
    /\ ops[2].kind = "Create" /\ ops[2].pc = "read_get"
    /\ CallsOf(ops[2], "UpdateRealm") # {}
    /\ remote["other"] = payloadOf(ops[2])

\* The remote calls that change the remote system
MutatingCalls == {"CreateRealm", "UpdateRealm", "DeleteRealm"}

ContextOf(op, c) ==
    SubSeq(op.result.err, 1, Len(op.result.err) - Len(c.err))

\* op returned the failure of its remote call c, which is not a not-found
ReturnedFailure(op, c) ==
    /\ Returned(op) /\ op.result.status = "error"
    /\ ~c.ok /\ c.err \notin NotFoundErrs
    /\ Len(op.result.err) >= Len(c.err)
    /\ SubSeq(op.result.err, Len(op.result.err) - Len(c.err) + 1,
              Len(op.result.err)) = c.err

\* C24: the error an invocation returns for the failure of a remote call,
\* not-found apart, has around the failure a context of the operation, and
\* a context that carries the name of the realm, which a text that is one of
\* the fixed context texts does not.
C24_ErrorNamesRealm ==
    \A op \in Ops :
      \A i \in 1..Len(op.calls) :
        ReturnedFailure(op, op.calls[i])
          => LET context == ContextOf(op, op.calls[i])
             IN  /\ context # << >>
                 /\ \E k \in 1..Len(context) : context[k] \notin ContextTexts

\* The shell Create makes for the inputs args, as the remote system stores it
shellOf(args) == Some(createdRealm(minimalRealm(args)))

C27_UnmanagedSurviveInterleaving ==
    [][\A p \in DOMAIN ops :
         (ops[p].kind = "Update" /\ ops[p].pc = "umf_update"
          /\ ops'[p].pc = "read_get")
           => \A f \in UnmanagedFields :
                Deref(remote[ops[p].name])[f] # Deref(ops[p].currentRealm)[f]
                  => Deref(remote'[ops[p].name])[f] = Deref(remote[ops[p].name])[f]
      ]_vars

\* C28: while a Delete that returned success has had no other writer on its
\* realm, the realm named by the deleted state is not in the remote system.
C28_DeleteMeansGone ==
    \A op \in Ops :
      (op.kind = "Delete" /\ Succeeded(op) /\ ~op.interfered)
        => IsNil(remote[op.name])

\* A Delete found the realm, deleted it with DeleteRealm and returned success
C28_Witness ==
    \E op \in Ops :
      /\ op.kind = "Delete" /\ Succeeded(op) /\ ~op.interfered
      /\ ~IsNil(op.pre)
      /\ Len(op.calls) = 2
      /\ op.calls[2].call = "DeleteRealm" /\ op.calls[2].ok
      /\ IsNil(remote[op.name])

\* C29: every GetRealm and UpdateRealm of an Update that is not a dry run is
\* on the realm named by the id of the prior state, whatever name the inputs
\* carry, and the representation an UpdateRealm sends names that realm.
C29_UpdateOwnRealm ==
    \A op \in Ops :
      (op.kind = "Update" /\ ~op.dryRun)
        => /\ \A i \in 1..Len(op.calls) :
                op.calls[i].call \in RealmCalls => op.calls[i].realm = op.id
           /\ \A i \in CallsOf(op, "UpdateRealm") :
                Deref(op.calls[i].arg.Realm) = op.id

\* The sub-fields of smtpServer
SmtpSubFields == DOMAIN NilSmtp

\* The reported state st agrees with the inputs D on the name, on every
\* managed field outside smtpServer that D gives, and on the sub-fields sub
\* of smtpServer that D gives
AgreesOn(D, st, sub) ==
    /\ st.Name = D.Name
    /\ \A f \in managedFields \ {"SmtpServer"} : ~IsNil(D[f]) => st[f] = D[f]
    /\ ~IsNil(D.SmtpServer)
         => /\ ~IsNil(st.SmtpServer)
            /\ \A g \in sub :
                 ~IsNil(Deref(D.SmtpServer)[g])
                   => Deref(st.SmtpServer)[g] = Deref(D.SmtpServer)[g]

\* The sub-fields of smtp that come back from the remote system: all but
\* username and password when auth is not true, and the port when it is
\* below zero
Retained(smtp) ==
    SmtpSubFields
      \ ((IF smtp.Auth = Some(TRUE) THEN {} ELSE {"Username", "Password"})
         \cup (IF ~IsNil(smtp.Port) /\ IsNegative(Deref(smtp.Port))
               THEN {"Port"} ELSE {}))

\* C30 as stated: the state a successful Update that is not a dry run
\* reports agrees with its inputs on every managed field they give, every
\* sub-field of smtpServer included.
C30_ConvergesAnyInput ==
    \A op \in Ops :
      (op.kind = "Update" /\ Succeeded(op) /\ ~op.dryRun)
        => AgreesOn(op.args, Deref(op.result.state), SmtpSubFields)

\* C30: the state a successful Update that is not a dry run reports agrees
\* with its inputs on every managed field they give and, within smtpServer,
\* on every sub-field they give other than username and password when auth
\* is not true and the port when it is negative.
C30_Converges ==
    \A op \in Ops :
      (op.kind = "Update" /\ Succeeded(op) /\ ~op.dryRun)
        => AgreesOn(op.args, Deref(op.result.state),
                    IF IsNil(op.args.SmtpServer) THEN SmtpSubFields
                    ELSE Retained(Deref(op.args.SmtpServer)))

\* An Update with auth false and a username has reported host, port and
\* auth as given and no username
C30_Witness ==
    \E op \in Ops :
      /\ op.kind = "Update" /\ Succeeded(op) /\ ~op.dryRun
      /\ op.args.SmtpServer = Some(SmtpNoAuth)
      /\ LET smtp == Deref(Deref(op.result.state).SmtpServer)
         IN  /\ smtp.Host = SmtpNoAuth.Host /\ smtp.Port = SmtpNoAuth.Port
             /\ smtp.Auth = Some(FALSE) /\ smtp.StartTls = Some(FALSE)
             /\ IsNil(smtp.Username) /\ IsNil(smtp.Password)

=============================================================================
